---- MODULE Spec2Model ----
(***************************************************************************)
(* Real-time broadcast core of GEFO.                                       *)
(*                                                                         *)
(*   backend/app/core/websocket_manager.py   ConnectionManager             *)
(*   backend/app/services/live_feed.py       LiveFeedSimulator loops       *)
(*   backend/app/services/vessel_tracker.py  VesselTracker                 *)
(*   backend/app/api/websocket.py            the /ws/live frame handler    *)
(*   backend/app/api/vessels.py              the REST readers              *)
(*                                                                         *)
(* All coroutines run on one asyncio event loop, so a step of the model is *)
(* the code that runs between two suspension points.  The manager's lock   *)
(* is an asyncio.Lock whose critical sections contain no await: it is      *)
(* never contended, so "async with self._lock" never suspends.  The only   *)
(* suspension point inside the manager is "await websocket.send_json" in   *)
(* _send (and "await ws.accept()" before a session exists).                *)
(***************************************************************************)
EXTENDS FiniteSets, Integers, Sequences, TLC

VARIABLES
    clients,        \* ConnectionManager._clients: client_id -> ClientInfo
    channel_subs,   \* ConnectionManager._channel_subs: channel -> set of ids
    counter,        \* ConnectionManager._counter
    info,           \* the ClientInfo object created for each accepted socket
    sock,           \* transport state of each WebSocket
    received,       \* frames each WebSocket's peer has been sent, in order
    inflight,       \* connect()/send_to() calls suspended in send_json
    bc,             \* the broadcast() call in progress
    api_key,        \* VesselTracker._api_key
    running,        \* VesselTracker._running
    vessels,        \* VesselTracker._vessels: mmsi -> VesselPosition
    now,            \* time.time()
    sim_vessels,    \* VesselTracker._sim_vessels: list of SimulatedVessel
    tasks,          \* VesselTracker._tasks
    sched,          \* the loop tasks the event loop still holds
    epoch,          \* start() calls that created tasks so far
    crowd,          \* registry entries of identities outside Mmsis
    sv,             \* one SimulatedVessel's route cursor
    trip,           \* what the ticks of sv covered so far (observer)
    lock,           \* ConnectionManager._lock: the call that holds it
    calls,          \* manager calls in progress and where each one stands
    rest,           \* a REST request running in a thread-pool worker
    last            \* the registry call made by the latest step (observer)

mgrVars == <<clients, channel_subs, counter, info, sock, received, inflight, bc>>
trkVars == <<api_key, running, vessels, now, sim_vessels, tasks, sched, epoch, crowd>>
auxVars == <<sv, trip, lock, calls, rest>>
vars == <<clients, channel_subs, counter, info, sock, received, inflight, bc,
          api_key, running, vessels, now, sim_vessels, tasks, sched, epoch, crowd,
          sv, trip, lock, calls, rest, last>>

----------------------------------------------------------------------------
(* Bounds *)

MaxSockets == 2      \* WebSocket connections ever accepted
MaxRecv == 2         \* frames delivered to one socket
MaxMmsi == 2         \* distinct vessel identities
ClockStep == 300     \* seconds the clock advances in one step
MaxClock == 900      \* last clock value explored
MaxStarts == 2       \* start() calls that create tasks
MaxCalls == 3        \* manager calls followed through the lock
MaxLaps == 2         \* times a route cursor wraps to its start
MaxRequests == 2     \* REST requests served

----------------------------------------------------------------------------
(* Identities, channels *)

Sockets == 1..MaxSockets
NoSock == 0

NoId == ""

AutoId(n) == "client-" \o ToString(n)

SuppliedIds == {"client-2"}

ClientIds == {AutoId(n) : n \in 1..MaxSockets} \cup SuppliedIds

ALL_CHANNELS == {"trade", "ports", "alerts", "geopolitical", "vessels", "system"}

UnknownChannel == "not-a-real-channel"

ChannelNames == ALL_CHANNELS \cup {UnknownChannel}

NameLists == {<<"system", "ports">>, <<"not-a-real-channel">>}

Range(s) == {s[i] : i \in 1..Len(s)}

Perms(S) == {f \in [1..Cardinality(S) -> S] :
                \A i, j \in 1..Cardinality(S) : i # j => f[i] # f[j]}

----------------------------------------------------------------------------
(* JSON payloads: a dict is its key set plus the values the model reads *)

Dict(keys, type, event, client_id, channels, count, vlist) ==
    [keys |-> keys, type |-> type, event |-> event, client_id |-> client_id,
     channels |-> channels, count |-> count, vessels |-> vlist]

SetDefaultTs(d) ==
    IF "ts" \in d.keys THEN d ELSE [d EXCEPT !.keys = @ \cup {"ts"}]

SetDefaultTypeOverwrite(d, channel) ==
    [d EXCEPT !.keys = @ \cup {"type"}, !.type = channel]

SetDefaultType(d, channel) ==
    IF "type" \in d.keys THEN d
    ELSE [d EXCEPT !.keys = @ \cup {"type"}, !.type = channel]

WelcomeMessageAll(cid, chans) ==
    Dict({"type", "event", "client_id", "channels", "ts"},
         "system", "connected", cid, ALL_CHANNELS, 0, <<>>)

WelcomeMessage(cid, chans) ==
    Dict({"type", "event", "client_id", "channels", "ts"},
         "system", "connected", cid, chans, 0, <<>>)

HeartbeatData == Dict({"event", "clients", "stats"}, "", "heartbeat", NoId, {}, 0, <<>>)

PortEventData ==
    Dict({"event", "id", "port_name", "country_iso", "lat", "lon"},
         "", "throughput_update", NoId, {}, 0, <<>>)

PongData == Dict({"type", "event"}, "system", "pong", NoId, {}, 0, <<>>)

FeedData(channel) == IF channel = "system" THEN HeartbeatData ELSE PortEventData

FeedChannels == {"system", "ports", UnknownChannel}

----------------------------------------------------------------------------
(* ClientInfo *)

NoInfo == [client_id |-> NoId, channels |-> {}, messages_sent |-> 0]

ClientInfo(cid) == [client_id |-> cid, channels |-> {"system"}, messages_sent |-> 0]

Mmsis == 1..MaxMmsi

Absent == -1

NoVessel ==
    [lat |-> 0, lon |-> 0, heading |-> 0, vessel_type |-> "", last_update |-> Absent,
     gen |-> 0, name |-> "", speed_knots |-> 0, destination |-> "", flag_iso |-> "",
     length_m |-> 0, draught_m |-> 0]

(* gen names the object: the fleet initialisation that built it, 0 for an
   object built from a report *)
VesselPosition(pos, heading, vessel_type, t, gen) ==
    [lat |-> pos[1], lon |-> pos[2], heading |-> heading, vessel_type |-> vessel_type,
     last_update |-> t, gen |-> gen, name |-> "", speed_knots |-> 0,
     destination |-> "", flag_iso |-> "", length_m |-> 0, draught_m |-> 0]

SimulatedVessel(m, gen) == [mmsi |-> m, gen |-> gen]

NoCrowd == [n |-> 0, at |-> 0]

NoCall == [op |-> "", cid |-> NoId, names |-> <<>>, pre |-> {}, ret |-> {}]

IdleBc ==
    [pc |-> "idle", owner |-> "", channel |-> "", data |-> HeartbeatData, cids |-> <<>>,
     target |-> NoSock, res |-> "", sent |-> 0,
     snap |-> {}, delivered |-> [w \in Sockets |-> 0], failed |-> {}]

(* the parts of the state that only some specifications move *)

NoCursor == [route |-> <<>>, current_segment |-> 0, segment_progress |-> 0]

NoTrip == [current_segment |-> 0, segment_progress |-> 0, dist |-> 0,
           start |-> 0, covered |-> 0, laps |-> 0]

Free == 0

CallIds == 1..MaxCalls

NoOp == [op |-> "", pc |-> "idle", left |-> 0, dropped |-> 0]

NoRead == [lat |-> Absent, lon |-> Absent]

IdleRest ==
    [pc |-> "idle", op |-> "", size |-> 0, todo |-> {}, cur |-> 0,
     lat |-> Absent, out |-> [m \in Mmsis |-> NoRead], total |-> 0,
     served |-> 0]

InitAux ==
    /\ sv = NoCursor
    /\ trip = NoTrip
    /\ lock = Free
    /\ calls = [c \in CallIds |-> NoOp]
    /\ rest = IdleRest


Init ==
    /\ clients = [c \in ClientIds |-> NoSock]
    /\ channel_subs = [ch \in ChannelNames |-> {}]
    /\ counter = 0
    /\ info = [w \in Sockets |-> NoInfo]
    /\ sock = [w \in Sockets |-> "NEW"]
    /\ received = [w \in Sockets |-> <<>>]
    /\ inflight = {}
    /\ bc = IdleBc
    /\ api_key = ""
    /\ running = FALSE
    /\ vessels = [m \in Mmsis |-> NoVessel]
    /\ now = 0
    /\ sim_vessels = <<>>
    /\ tasks = <<>>
    /\ sched = {}
    /\ epoch = 0
    /\ crowd = NoCrowd
    /\ InitAux
    /\ last = NoCall

----------------------------------------------------------------------------
(* _send: outcome of the attempt, fixed when send_json is called *)

SendOutcome(st) ==
    IF st = "CONNECTED" THEN "ok"
    ELSE IF st = "BROKEN" THEN "raise"
    ELSE "skip"

Deliver(rcv, w, data) == [rcv EXCEPT ![w] = Append(@, data)]

MarkSent(inf, w) == [inf EXCEPT ![w].messages_sent = @ + 1]

(* disconnect *)

DisconnectClients(cl, cid) == [cl EXCEPT ![cid] = NoSock]

DisconnectSubsClear(cl, subs, inf, cid) ==
    IF cl[cid] # NoSock
    THEN [ch \in ChannelNames |->
            IF ch \in inf[cl[cid]].channels THEN {} ELSE subs[ch]]
    ELSE subs

DisconnectSubs(cl, subs, inf, cid) ==
    IF cl[cid] # NoSock
    THEN [ch \in ChannelNames |->
            IF ch \in inf[cl[cid]].channels THEN subs[ch] \ {cid} ELSE subs[ch]]
    ELSE subs

Disconnect(cid) ==
    /\ clients' = DisconnectClients(clients, cid)
    /\ channel_subs' = DisconnectSubs(clients, channel_subs, info, cid)
    /\ UNCHANGED <<counter, info, sock, received, inflight, bc>>
    /\ UNCHANGED <<trkVars, auxVars>>

(* connect *)

ConnectId(client_id, n) == IF client_id # NoId THEN client_id ELSE AutoId(n)

Connect(w, client_id) ==
    /\ sock[w] = "NEW"
    /\ \E st \in {"CONNECTED", "BROKEN"} :
         LET cid == ConnectId(client_id, counter + 1)
             new == ClientInfo(cid)
         IN  /\ sock' = [sock EXCEPT ![w] = st]
             /\ counter' = counter + 1
             /\ info' = [info EXCEPT ![w] = new]
             /\ clients' = [clients EXCEPT ![cid] = w]
             /\ channel_subs' = [channel_subs EXCEPT !["system"] = @ \cup {cid}]
             /\ received' = IF SendOutcome(st) = "ok"
                            THEN Deliver(received, w, WelcomeMessage(cid, new.channels))
                            ELSE received
             /\ inflight' = inflight \cup {[w |-> w, res |-> SendOutcome(st)]}
    /\ UNCHANGED bc
    /\ UNCHANGED <<trkVars, auxVars>>

(* subscribe / unsubscribe *)

SubscribeChannelsAny(chans, names) == chans \cup Range(names)

SubscribeChannels(chans, names) == chans \cup (Range(names) \cap ALL_CHANNELS)

UnsubscribeChannelsAll(chans, names) == chans \ Range(names)

UnsubscribeChannels(chans, names) == chans \ (Range(names) \ {"system"})

Subscribe(cid, names) ==
    /\ IF clients[cid] = NoSock
       THEN UNCHANGED <<info, channel_subs>>
       ELSE LET w == clients[cid]
                added == Range(names) \cap ALL_CHANNELS
            IN  /\ info' = [info EXCEPT ![w].channels = SubscribeChannels(@, names)]
                /\ channel_subs' = [ch \in ChannelNames |->
                        IF ch \in added THEN channel_subs[ch] \cup {cid}
                        ELSE channel_subs[ch]]
    /\ UNCHANGED <<clients, counter, sock, received, inflight, bc>>
    /\ UNCHANGED <<trkVars, auxVars>>

Unsubscribe(cid, names) ==
    /\ IF clients[cid] = NoSock
       THEN UNCHANGED <<info, channel_subs>>
       ELSE LET w == clients[cid]
                removed == Range(names) \ {"system"}
            IN  /\ info' = [info EXCEPT ![w].channels = UnsubscribeChannels(@, names)]
                /\ channel_subs' = [ch \in ChannelNames |->
                        IF ch \in removed THEN channel_subs[ch] \ {cid}
                        ELSE channel_subs[ch]]
    /\ UNCHANGED <<clients, counter, sock, received, inflight, bc>>
    /\ UNCHANGED <<trkVars, auxVars>>

(* send_to *)

SendToEffect(cid, data0) ==
    IF clients[cid] = NoSock
    THEN UNCHANGED <<received, inflight>>
    ELSE LET w == clients[cid]
             data == SetDefaultTs(data0)
             res == SendOutcome(sock[w])
         IN  IF res = "skip"
             THEN UNCHANGED <<received, inflight>>
             ELSE /\ [w |-> w, res |-> res] \notin inflight
                  /\ res = "ok" =>
                       Len(received[w]) + (IF bc.pc = "sending" THEN 1 ELSE 0) < MaxRecv
                  /\ received' = IF res = "ok" THEN Deliver(received, w, data)
                                 ELSE received
                  /\ inflight' = inflight \cup {[w |-> w, res |-> res]}

SendTo(cid, data0) ==
    /\ SendToEffect(cid, data0)
    /\ UNCHANGED <<clients, channel_subs, counter, info, sock, bc>>
    /\ UNCHANGED <<trkVars, auxVars>>

(* connect() or send_to() resumes after its send_json: _send's tail *)

SendReturn(r) ==
    /\ r \in inflight
    /\ inflight' = inflight \ {r}
    /\ IF r.res = "ok"
       THEN /\ info' = MarkSent(info, r.w)
            /\ UNCHANGED <<clients, channel_subs>>
       ELSE /\ clients' = DisconnectClients(clients, info[r.w].client_id)
            /\ channel_subs' = DisconnectSubs(clients, channel_subs, info,
                                              info[r.w].client_id)
            /\ UNCHANGED info
    /\ UNCHANGED <<counter, sock, received, bc>>
    /\ UNCHANGED <<trkVars, auxVars>>

(* broadcast: the loop over cids, run until the next send_json or the return *)

Sendable(cl, cid) == cl[cid] # NoSock /\ SendOutcome(sock[cl[cid]]) # "skip"

FirstSendable(cl, cids) ==
    LET idx == {k \in 1..Len(cids) : Sendable(cl, cids[k])}
    IN  IF idx = {} THEN 0 ELSE CHOOSE k \in idx : \A j \in idx : k <= j

BroadcastLoop(cl, b, cids) ==
    LET k == FirstSendable(cl, cids)
        upto == IF k = 0 THEN Len(cids) ELSE k - 1
        skipped == {cl[cids[j]] : j \in 1..upto} \ {NoSock}
        w == cl[cids[k]]
        res == SendOutcome(sock[w])
    IN  IF k = 0
        THEN /\ bc' = [b EXCEPT !.pc = "done", !.cids = <<>>, !.target = NoSock,
                                !.res = "", !.failed = @ \cup skipped]
             /\ UNCHANGED received
        ELSE /\ bc' = [b EXCEPT !.pc = "sending",
                                !.cids = SubSeq(cids, k + 1, Len(cids)),
                                !.target = w, !.res = res,
                                !.failed = @ \cup skipped,
                                !.delivered[w] = IF res = "ok" THEN @ + 1 ELSE @]
             /\ received' = IF res = "ok" THEN Deliver(received, w, b.data)
                            ELSE received

Broadcast(owner, channel, data0) ==
    /\ bc.pc = "idle"
    /\ \A w \in Sockets : Len(received[w]) < MaxRecv
    /\ \E cids \in Perms(channel_subs[channel]) :
         BroadcastLoop(clients,
             [IdleBc EXCEPT !.owner = owner, !.channel = channel,
                            !.data = SetDefaultType(SetDefaultTs(data0), channel),
                            !.snap = {clients[c] : c \in channel_subs[channel]} \ {NoSock}],
             cids)
    /\ UNCHANGED <<clients, channel_subs, counter, info, sock, inflight>>

SentAfterAlways(sent, res) == sent + 1

SentAfter(sent, res) == IF res = "ok" THEN sent + 1 ELSE sent

RestAfterAbort(res, cids) == IF res = "ok" THEN cids ELSE <<>>

RestAfter(res, cids) == cids

BroadcastResume ==
    /\ bc.pc = "sending"
    /\ LET w == bc.target
           cid == info[w].client_id
           b == [bc EXCEPT !.sent = SentAfter(@, bc.res),
                           !.failed = IF bc.res = "ok" THEN @ ELSE @ \cup {w}]
       IN  IF bc.res = "ok"
           THEN /\ info' = MarkSent(info, w)
                /\ UNCHANGED <<clients, channel_subs>>
                /\ BroadcastLoop(clients, b, RestAfter(bc.res, bc.cids))
           ELSE /\ clients' = DisconnectClients(clients, cid)
                /\ channel_subs' = DisconnectSubs(clients, channel_subs, info, cid)
                /\ UNCHANGED info
                /\ BroadcastLoop(DisconnectClients(clients, cid), b,
                                 RestAfter(bc.res, bc.cids))
    /\ UNCHANGED <<counter, sock, inflight>>
    /\ UNCHANGED <<trkVars, auxVars>>

(* the peers and the network *)

SockBreak(w) ==
    /\ sock[w] = "CONNECTED"
    /\ sock' = [sock EXCEPT ![w] = "BROKEN"]
    /\ UNCHANGED <<clients, channel_subs, counter, info, received, inflight, bc>>
    /\ UNCHANGED <<trkVars, auxVars>>

PeerClose(w) ==
    /\ sock[w] \in {"CONNECTED", "BROKEN"}
    /\ sock' = [sock EXCEPT ![w] = "DISCONNECTED"]
    /\ UNCHANGED <<clients, channel_subs, counter, info, received, inflight, bc>>
    /\ UNCHANGED <<trkVars, auxVars>>

----------------------------------------------------------------------------

DoConnect == bc.pc # "done" /\ \E w \in Sockets, client_id \in SuppliedIds \cup {NoId} : Connect(w, client_id) /\ UNCHANGED last
DoDisconnect == bc.pc # "done" /\ \E cid \in ClientIds : Disconnect(cid) /\ UNCHANGED last
DoSubscribe == bc.pc # "done" /\ \E cid \in ClientIds, names \in NameLists : Subscribe(cid, names) /\ UNCHANGED last
DoUnsubscribe == bc.pc # "done" /\ \E cid \in ClientIds, names \in NameLists : Unsubscribe(cid, names) /\ UNCHANGED last
DoSendTo == bc.pc # "done" /\ \E cid \in ClientIds : SendTo(cid, PongData) /\ UNCHANGED last
DoSendReturn == bc.pc # "done" /\ \E r \in inflight : SendReturn(r) /\ UNCHANGED last
DoBroadcast == bc.pc # "done" /\ \E channel \in FeedChannels : Broadcast("feed", channel, FeedData(channel)) /\ UNCHANGED <<trkVars, auxVars>> /\ UNCHANGED last
DoSockBreak == bc.pc # "done" /\ \E w \in Sockets : SockBreak(w) /\ UNCHANGED last
DoPeerClose == bc.pc # "done" /\ \E w \in Sockets : PeerClose(w) /\ UNCHANGED last

BroadcastReturn ==
    /\ bc.pc = "done"
    /\ bc' = IdleBc
    /\ UNCHANGED <<clients, channel_subs, counter, info, sock, received, inflight>>
    /\ UNCHANGED <<trkVars, auxVars>>
    /\ UNCHANGED last

DoBroadcastResume == BroadcastResume /\ UNCHANGED last

Next ==
    \/ BroadcastReturn
    \/ DoConnect
    \/ DoDisconnect
    \/ DoSubscribe
    \/ DoUnsubscribe
    \/ DoSendTo
    \/ DoSendReturn
    \/ DoBroadcast
    \/ DoBroadcastResume
    \/ DoSockBreak
    \/ DoPeerClose

Spec == Init /\ [][Next]_vars

TypeOK ==
    /\ \A w \in Sockets : Len(received[w]) <= MaxRecv
    /\ counter \in 0..MaxSockets

----------------------------------------------------------------------------
(* VesselTracker *)

MAX_VESSELS == 500
STALE_TIMEOUT == 600
DISPLAY_CUTOFF == 300

RECURSIVE SeqOf(_)
SeqOf(S) ==
    IF S = {} THEN <<>>
    ELSE LET lo == CHOOSE x \in S : \A y \in S : x <= y
         IN  <<lo>> \o SeqOf(S \ {lo})

(* the identities of the registry: the tracked ones and the crowd's *)

Present(vs) == {m \in Mmsis : vs[m] # NoVessel}

CrowdIds(c) == (MaxMmsi + 1)..(MaxMmsi + c.n)

Size(vs, c) == Cardinality(Present(vs)) + c.n

get_vessels_upto(vs, c, t) ==
    SeqOf({m \in Present(vs) : vs[m].last_update >= t - DISPLAY_CUTOFF}
          \cup (IF c.at >= t - DISPLAY_CUTOFF THEN CrowdIds(c) ELSE {}))

get_vessels(vs, c, t) ==
    SeqOf({m \in Present(vs) : vs[m].last_update > t - DISPLAY_CUTOFF}
          \cup (IF c.at > t - DISPLAY_CUTOFF THEN CrowdIds(c) ELSE {}))

VesselsData(vlist) ==
    Dict({"type", "timestamp", "count", "vessels"},
         "vessel_positions", "", NoId, {}, Len(vlist), vlist)

(* the background loops: asyncio tasks *)

Task(kind, e) == [kind |-> kind, epoch |-> e]

NewLoop(t) ==
    [kind |-> t.kind, epoch |-> t.epoch, cancelled |-> FALSE,
     pc |-> IF t.kind = "ais" THEN "connect" ELSE "loop", via |-> "start"]

TaskOf(l) == Task(l.kind, l.epoch)

LoopKindsBoth(key) == <<"ais", "cleanup", "sim", "broadcast">>

LoopKinds(key) ==
    IF key # "" THEN <<"ais", "cleanup", "broadcast">> ELSE <<"sim", "broadcast">>

StartTasks(key, e) == [i \in 1..Len(LoopKinds(key)) |-> Task(LoopKinds(key)[i], e)]

CancelNone(sch, tks) == sch

CancelAll(sch, tks) ==
    {IF TaskOf(l) \in Range(tks) THEN [l EXCEPT !.cancelled = TRUE] ELSE l : l \in sch}

Active(l) == l \in sched /\ ~l.cancelled /\ running

Step(l, pc, via) == (sched \ {l}) \cup {[l EXCEPT !.pc = pc, !.via = via]}

(* _compute_heading: atan2 in degrees lies in [-180, 180] *)

Bearings == {-180, -90, 0, 180}

compute_heading(deg) == (deg + 360) % 360

SimPoints == {<<31, 121>>, <<38, -175>>}

SimMoves == [Mmsis -> [pos : SimPoints, bearing : Bearings]]

CalmMoves == [m \in Mmsis |-> [pos |-> <<31, 121>>, bearing |-> 0]]

(* _init_simulated_fleet: the same identities on every call; of the random *)
(* draws for name, flag, speed and size one outcome is kept                *)

BASE_SPEED == 14

FleetMmsis == SeqOf(Mmsis)

InitFleetVessels(vs, moves, t, gen) ==
    [m \in Mmsis |->
        [VesselPosition(moves[m].pos, compute_heading(moves[m].bearing),
                        "container", t, gen)
            EXCEPT !.name = "EVER GIVEN", !.speed_knots = BASE_SPEED,
                   !.destination = "Rotterdam", !.flag_iso = "PA",
                   !.length_m = 340, !.draught_m = 12]]

InitFleetCursors(cursors, gen) ==
    cursors \o [i \in 1..Len(FleetMmsis) |-> SimulatedVessel(FleetMmsis[i], gen)]

(* "if self._running: return" *)

AlreadyRunningNever(r) == FALSE

AlreadyRunning(r) == r

Start(moves) ==
    /\ epoch < MaxStarts
    /\ IF AlreadyRunning(running)
       THEN UNCHANGED <<running, epoch, vessels, sim_vessels, tasks, sched>>
       ELSE /\ running' = TRUE
            /\ epoch' = epoch + 1
            /\ IF api_key # ""
               THEN UNCHANGED <<vessels, sim_vessels>>
               ELSE /\ vessels' = InitFleetVessels(vessels, moves, now, epoch + 1)
                    /\ sim_vessels' = InitFleetCursors(sim_vessels, epoch + 1)
            /\ tasks' = tasks \o StartTasks(api_key, epoch + 1)
            /\ sched' = sched \cup
                   {NewLoop(t) : t \in Range(StartTasks(api_key, epoch + 1))}
    /\ UNCHANGED <<api_key, now, crowd>>
    /\ UNCHANGED <<mgrVars, auxVars>>

Stop ==
    /\ running' = FALSE
    /\ sched' = CancelAll(sched, tasks)
    /\ tasks' = <<>>
    /\ bc' = IF bc.owner = "tracker" THEN IdleBc ELSE bc
    /\ UNCHANGED <<api_key, vessels, now, sim_vessels, epoch, crowd>>
    /\ UNCHANGED <<clients, channel_subs, counter, info, sock, received, inflight>>
    /\ UNCHANGED auxVars

(* a loop resumed with CancelledError, or whose "while self._running" fails *)

TaskExit(l) ==
    /\ l \in sched
    /\ l.cancelled \/ ~running
    /\ sched' = sched \ {l}
    /\ UNCHANGED <<api_key, running, vessels, now, sim_vessels, tasks, epoch, crowd>>
    /\ UNCHANGED <<mgrVars, auxVars>>

(* _sim_loop: every cursor's VesselPosition object is advanced *)

AdvanceAll(vs, cursors, moves, t) ==
    [m \in Mmsis |->
        IF \E i \in 1..Len(cursors) :
              cursors[i].mmsi = m /\ vs[m] # NoVessel /\ cursors[i].gen = vs[m].gen
        THEN [vs[m] EXCEPT !.lat = moves[m].pos[1], !.lon = moves[m].pos[2],
                           !.heading = compute_heading(moves[m].bearing),
                           !.speed_knots = BASE_SPEED,
                           !.last_update = t]
        ELSE vs[m]]

SimTick(l, moves) ==
    /\ Active(l) /\ l.kind = "sim"
    /\ vessels' = AdvanceAll(vessels, sim_vessels, moves, now)
    /\ UNCHANGED <<api_key, running, now, sim_vessels, tasks, sched, epoch, crowd>>
    /\ UNCHANGED <<mgrVars, auxVars>>

(* _ais_stream_loop: the upstream connection *)

AisConnectOk(l) ==
    /\ Active(l) /\ l.kind = "ais" /\ l.pc = "connect"
    /\ sched' = Step(l, "stream", l.via)
    /\ UNCHANGED <<api_key, running, vessels, now, sim_vessels, tasks, epoch, crowd>>
    /\ UNCHANGED <<mgrVars, auxVars>>

AisConnectError(l) ==
    /\ Active(l) /\ l.kind = "ais" /\ l.pc = "connect"
    /\ sched' = Step(l, "sleep", l.via)
    /\ UNCHANGED <<api_key, running, vessels, now, sim_vessels, tasks, epoch, crowd>>
    /\ UNCHANGED <<mgrVars, auxVars>>

AisDropError(l) ==
    /\ Active(l) /\ l.kind = "ais" /\ l.pc = "stream"
    /\ sched' = Step(l, "sleep", l.via)
    /\ UNCHANGED <<api_key, running, vessels, now, sim_vessels, tasks, epoch, crowd>>
    /\ UNCHANGED <<mgrVars, auxVars>>

AisStreamEnd(l) ==
    /\ Active(l) /\ l.kind = "ais" /\ l.pc = "stream"
    /\ sched' = Step(l, "connect", "end")
    /\ UNCHANGED <<api_key, running, vessels, now, sim_vessels, tasks, epoch, crowd>>
    /\ UNCHANGED <<mgrVars, auxVars>>

AisWake(l) ==
    /\ Active(l) /\ l.kind = "ais" /\ l.pc = "sleep"
    /\ sched' = Step(l, "connect", "sleep")
    /\ UNCHANGED <<api_key, running, vessels, now, sim_vessels, tasks, epoch, crowd>>
    /\ UNCHANGED <<mgrVars, auxVars>>

(* _process_ais_message *)

NullIsland(pos) == pos[1] = 0 /\ pos[2] = 0

InRange(pos) == -90 <= pos[1] /\ pos[1] <= 90 /\ -180 <= pos[2] /\ pos[2] <= 180

Heading(heading_raw, cog) == IF heading_raw = 511 THEN cog ELSE heading_raw

HasRoomUpTo(n) == n <= MAX_VESSELS

HasRoom(n) == n < MAX_VESSELS

UpdatePositionFresh(v, pos, heading, t) == VesselPosition(pos, heading, "cargo", t, 0)

UpdatePosition(v, pos, heading, t) ==
    [v EXCEPT !.lat = pos[1], !.lon = pos[2], !.heading = heading, !.last_update = t]

(* pos_report.get("Sog", default): NoSog is a report without the key *)

NoSog == Absent

Sog(sog, default) == IF sog = NoSog THEN default ELSE sog

(* f"VESSEL-{mmsi[-4:]}" *)

DefaultName(m) == IF m = 1 THEN "VESSEL-0001" ELSE "VESSEL-000N"

(* _mmsi_to_flag: identity 1 has a listed MID, the others have none *)

mmsi_to_flag(m) == IF m = 1 THEN "GRC" ELSE ""

ais_type_to_gefo(ais_type) ==
    IF ais_type = 0 THEN "cargo"
    ELSE IF 70 <= ais_type /\ ais_type <= 79 THEN "cargo"
    ELSE IF 80 <= ais_type /\ ais_type <= 89 THEN "tanker"
    ELSE IF 60 <= ais_type /\ ais_type <= 69 THEN "passenger"
    ELSE IF 30 <= ais_type /\ ais_type <= 39 THEN "fishing"
    ELSE IF 50 <= ais_type /\ ais_type <= 59
         THEN IF ais_type = 55 THEN "military" ELSE "other"
    ELSE IF 40 <= ais_type /\ ais_type <= 49 THEN "passenger"
    ELSE IF 90 <= ais_type /\ ais_type <= 99 THEN "other"
    ELSE "cargo"

(* _refine_type_by_name, on the names the model sends *)

ContainerNames == {"MSC ANNA"}

LngNames == {"ARCTIC SPIRIT"}

BulkNames == {"ORE BRASIL"}

refine_type_by_name(name, current_type) ==
    IF name = "" THEN current_type
    ELSE IF name \in ContainerNames THEN "container"
    ELSE IF name \in LngNames THEN "lng"
    ELSE IF name \in BulkNames THEN "bulk"
    ELSE current_type

(* a ShipStaticData message: Type, Name, Destination, Dimension A + B,    *)
(* MaximumStaticDraught                                                    *)

ShipStatic(ship_type, name, destination, length, draught) ==
    [ship_type |-> ship_type, name |-> name, destination |-> destination,
     length |-> length, draught |-> draught]

TankerStatic == ShipStatic(80, "", "", 0, 0)

StaticType(static) == refine_type_by_name(static.name, ais_type_to_gefo(static.ship_type))

UpdateStaticTouch(v, static, t) ==
    [v EXCEPT !.vessel_type = StaticType(static), !.last_update = t]

UpdateStatic(v, static, t) ==
    [v EXCEPT !.name = IF static.name # "" THEN static.name ELSE @,
              !.vessel_type = StaticType(static),
              !.destination = IF static.destination # "" THEN static.destination ELSE @,
              !.length_m = IF static.length > 0 THEN static.length ELSE @,
              !.draught_m = IF static.draught > 0 THEN static.draught ELSE @]

PositionReport(l, m, pos, heading_raw, cog, sog) ==
    /\ Active(l) /\ l.kind = "ais" /\ l.pc = "stream"
    /\ IF NullIsland(pos) \/ ~InRange(pos)
       THEN UNCHANGED vessels
       ELSE IF vessels[m] # NoVessel
            THEN vessels' = [vessels EXCEPT
                     ![m] = [UpdatePosition(@, pos, Heading(heading_raw, cog), now)
                                EXCEPT !.speed_knots = Sog(sog, vessels[m].speed_knots)]]
            ELSE IF HasRoom(Size(vessels, crowd))
                 THEN vessels' = [vessels EXCEPT
                          ![m] = [VesselPosition(pos, Heading(heading_raw, cog),
                                                 "cargo", now, 0)
                                     EXCEPT !.name = DefaultName(m),
                                            !.speed_knots = Sog(sog, 0),
                                            !.flag_iso = mmsi_to_flag(m)]]
                 ELSE UNCHANGED vessels
    /\ UNCHANGED <<api_key, running, now, sim_vessels, tasks, sched, epoch, crowd>>
    /\ UNCHANGED <<mgrVars, auxVars>>

StaticReport(l, m, static, pos) ==
    /\ Active(l) /\ l.kind = "ais" /\ l.pc = "stream"
    /\ IF vessels[m] # NoVessel
       THEN vessels' = [vessels EXCEPT ![m] = UpdateStatic(@, static, now)]
       ELSE IF HasRoom(Size(vessels, crowd)) /\ ~NullIsland(pos)
            THEN vessels' = [vessels EXCEPT
                     ![m] = [VesselPosition(pos, 0, StaticType(static), now, 0)
                                EXCEPT !.name = IF static.name # "" THEN static.name
                                                ELSE DefaultName(m),
                                       !.destination = static.destination,
                                       !.flag_iso = mmsi_to_flag(m),
                                       !.length_m = static.length,
                                       !.draught_m = static.draught]]
            ELSE UNCHANGED vessels
    /\ UNCHANGED <<api_key, running, now, sim_vessels, tasks, sched, epoch, crowd>>
    /\ UNCHANGED <<mgrVars, auxVars>>

(* n position reports in a row, from n identities none of which is tracked *)


CrowdSizes == {MAX_VESSELS - 1, MAX_VESSELS}

Admitted(n, size) ==
    IF n <= MAX_VESSELS - size THEN n
    ELSE IF MAX_VESSELS - size > 0 THEN MAX_VESSELS - size ELSE 0

CrowdReports(l, n) ==
    /\ Active(l) /\ l.kind = "ais" /\ l.pc = "stream"
    /\ crowd.n = 0
    /\ crowd' = IF Admitted(n, Size(vessels, crowd)) = 0 THEN NoCrowd
                ELSE [n |-> Admitted(n, Size(vessels, crowd)), at |-> now]
    /\ UNCHANGED <<api_key, running, vessels, now, sim_vessels, tasks, sched, epoch>>
    /\ UNCHANGED <<mgrVars, auxVars>>

(* _cleanup_loop *)

StaleOrOnTheLine(last_update, t) == last_update <= t - STALE_TIMEOUT

Stale(last_update, t) == last_update < t - STALE_TIMEOUT

CleanupSweep(l) ==
    /\ Active(l) /\ l.kind = "cleanup"
    /\ vessels' = [m \in Mmsis |->
                     IF vessels[m] # NoVessel /\ Stale(vessels[m].last_update, now)
                     THEN NoVessel ELSE vessels[m]]
    /\ crowd' = IF crowd.n > 0 /\ Stale(crowd.at, now) THEN NoCrowd ELSE crowd
    /\ UNCHANGED <<api_key, running, now, sim_vessels, tasks, sched, epoch>>
    /\ UNCHANGED <<mgrVars, auxVars>>

ClockTick ==
    /\ now + ClockStep <= MaxClock
    /\ now' = now + ClockStep
    /\ UNCHANGED <<api_key, running, vessels, sim_vessels, tasks, sched, epoch, crowd>>
    /\ UNCHANGED <<mgrVars, auxVars>>

(* _broadcast_loop *)

BroadcastVessels(l) ==
    /\ Active(l) /\ l.kind = "broadcast"
    /\ get_vessels(vessels, crowd, now) # <<>>
    /\ Broadcast("tracker", "vessels", VesselsData(get_vessels(vessels, crowd, now)))
    /\ UNCHANGED <<trkVars, auxVars>>

InitVessels ==
    /\ clients = [c \in ClientIds |-> NoSock]
    /\ channel_subs = [ch \in ChannelNames |-> {}]
    /\ counter = 0
    /\ info = [w \in Sockets |-> NoInfo]
    /\ sock = [w \in Sockets |-> "NEW"]
    /\ received = [w \in Sockets |-> <<>>]
    /\ inflight = {}
    /\ bc = IdleBc
    /\ api_key \in {"", "key"}
    /\ running = FALSE
    /\ vessels = [m \in Mmsis |-> NoVessel]
    /\ now = 0
    /\ sim_vessels = <<>>
    /\ tasks = <<>>
    /\ sched = {}
    /\ epoch = 0
    /\ crowd = NoCrowd
    /\ InitAux
    /\ last = NoCall

VConnect == bc.pc # "done" /\ \E w \in Sockets : Connect(w, NoId) /\ UNCHANGED last
VSubscribe == bc.pc # "done" /\ \E cid \in ClientIds : Subscribe(cid, <<"vessels">>) /\ UNCHANGED last
VAisConnectOk == bc.pc # "done" /\ \E l \in sched : AisConnectOk(l) /\ UNCHANGED last
VPositionReport == bc.pc # "done" /\ \E l \in sched, m \in Mmsis : PositionReport(l, m, <<45, 10>>, 90, 180, NoSog) /\ UNCHANGED last
VStart == bc.pc # "done" /\ Start(CalmMoves) /\ UNCHANGED last
VStop == bc.pc # "done" /\ Stop /\ UNCHANGED last
VSimTick == bc.pc # "done" /\ \E l \in sched : SimTick(l, CalmMoves) /\ UNCHANGED last
VCleanupSweep == bc.pc # "done" /\ \E l \in sched : CleanupSweep(l) /\ UNCHANGED last
VClockTick == bc.pc # "done" /\ ClockTick /\ UNCHANGED last
VBroadcastVessels == bc.pc # "done" /\ \E l \in sched : BroadcastVessels(l) /\ UNCHANGED last

NextVessels ==
    \/ BroadcastReturn
    \/ VConnect
    \/ VSubscribe
    \/ DoSendReturn
    \/ DoBroadcastResume
    \/ VStart
    \/ VStop
    \/ VSimTick
    \/ VAisConnectOk
    \/ VPositionReport
    \/ VCleanupSweep
    \/ VClockTick
    \/ VBroadcastVessels

SpecVessels == InitVessels /\ [][NextVessels]_vars

----------------------------------------------------------------------------
(* The entity registry under reports, ticks and sweeps, with the observer *)

TrackerCall(op, ids, arg) ==
    [op |-> op, cid |-> NoId, names |-> arg, pre |-> Present(vessels), ret |-> ids]

Positions == {<<-90, 180>>, <<0, 0>>, <<91, 181>>}

HeadingCodes == {90, 511}

Courses == {360}

IStart ==
    \E moves \in IF running THEN {CalmMoves} ELSE SimMoves :
        Start(moves) /\ last' = TrackerCall("start", {}, <<>>)

IAisConnectOk ==
    \E l \in sched : AisConnectOk(l) /\ last' = TrackerCall("connect", {}, <<>>)

IPositionReport ==
    \E l \in sched, m \in Mmsis, pos \in Positions,
       heading_raw \in HeadingCodes, cog \in Courses :
        /\ PositionReport(l, m, pos, heading_raw, cog, NoSog)
        /\ last' = TrackerCall("position", {m}, pos)

IStaticReport ==
    \E l \in sched, m \in Mmsis, pos \in Positions :
        /\ StaticReport(l, m, TankerStatic, pos)
        /\ last' = TrackerCall("static", {m}, pos)

ICrowdReports ==
    \E l \in sched, n \in CrowdSizes :
        CrowdReports(l, n) /\ last' = TrackerCall("crowd", {}, <<n>>)

ICleanupSweep ==
    \E l \in sched : CleanupSweep(l) /\ last' = TrackerCall("cleanup", {}, <<>>)

ISimTick ==
    \E l \in sched, moves \in SimMoves :
        SimTick(l, moves) /\ last' = TrackerCall("sim", {}, <<>>)

IClockTick == ClockTick /\ last' = TrackerCall("clock", {}, <<>>)

NextIngest ==
    \/ IStart
    \/ IAisConnectOk
    \/ IPositionReport
    \/ IStaticReport
    \/ ICrowdReports
    \/ ICleanupSweep
    \/ ISimTick
    \/ IClockTick

SpecIngest == InitVessels /\ [][NextIngest]_vars

----------------------------------------------------------------------------
(* The tracker's lifecycle: start, stop and the loop tasks, with the observer
   recording which task took the step *)

LStart ==
    /\ bc.pc # "done"
    /\ Start(CalmMoves)
    /\ last' = TrackerCall("start", {}, IF running THEN <<"running">> ELSE <<>>)

LStop == bc.pc # "done" /\ Stop /\ last' = TrackerCall("stop", {}, <<>>)

LTaskExit ==
    \E l \in sched : TaskExit(l) /\ last' = TrackerCall("exit", {l.epoch}, <<l.kind>>)

LSimTick ==
    /\ bc.pc # "done"
    /\ \E l \in sched : SimTick(l, CalmMoves) /\ last' = TrackerCall("sim", {l.epoch}, <<>>)

LCleanupSweep ==
    /\ bc.pc # "done"
    /\ \E l \in sched : CleanupSweep(l) /\ last' = TrackerCall("cleanup", {l.epoch}, <<>>)

LBroadcastVessels ==
    /\ bc.pc # "done"
    /\ \E l \in sched :
          BroadcastVessels(l) /\ last' = TrackerCall("broadcast", {l.epoch}, <<>>)

LAisConnectOk ==
    /\ bc.pc # "done"
    /\ \E l \in sched :
          AisConnectOk(l) /\ last' = TrackerCall("ais", {l.epoch}, <<"connected">>)

LAisConnectError ==
    /\ bc.pc # "done"
    /\ \E l \in sched :
          AisConnectError(l) /\ last' = TrackerCall("ais", {l.epoch}, <<"connect error">>)

LAisDropError ==
    /\ bc.pc # "done"
    /\ \E l \in sched :
          AisDropError(l) /\ last' = TrackerCall("ais", {l.epoch}, <<"drop">>)

LAisStreamEnd ==
    /\ bc.pc # "done"
    /\ \E l \in sched :
          AisStreamEnd(l) /\ last' = TrackerCall("ais", {l.epoch}, <<"closed">>)

LAisWake ==
    /\ bc.pc # "done"
    /\ \E l \in sched :
          AisWake(l) /\ last' = TrackerCall("ais", {l.epoch}, <<"retry">>)

LPositionReport ==
    /\ bc.pc # "done"
    /\ \E l \in sched, m \in Mmsis :
          /\ PositionReport(l, m, <<45, 10>>, 511, 180, NoSog)
          /\ last' = TrackerCall("ais", {l.epoch}, <<"report">>)

NextLifecycle ==
    \/ BroadcastReturn
    \/ LStart
    \/ LStop
    \/ LTaskExit
    \/ LSimTick
    \/ LCleanupSweep
    \/ LBroadcastVessels
    \/ LAisConnectOk
    \/ LAisConnectError
    \/ LAisDropError
    \/ LAisStreamEnd
    \/ LAisWake
    \/ LPositionReport

SpecLifecycle == InitVessels /\ [][NextLifecycle]_vars

(* the event loop resumes every task it holds *)
SpecLifecycleFair ==
    /\ SpecLifecycle
    /\ WF_vars(BroadcastReturn)
    /\ WF_vars(LTaskExit)

----------------------------------------------------------------------------
(* The registry operations alone, with the observer recording each call *)

Call(op, cid, names, pre, r) ==
    [op |-> op, cid |-> cid, names |-> names, pre |-> pre, ret |-> r]

ChannelsOf(cl, inf, cid) == IF cl[cid] = NoSock THEN {} ELSE inf[cl[cid]].channels

RConnect ==
    \E w \in Sockets, client_id \in SuppliedIds \cup {NoId} :
        /\ Connect(w, client_id)
        /\ last' = Call("connect", ConnectId(client_id, counter + 1), <<>>,
                        ChannelsOf(clients, info, ConnectId(client_id, counter + 1)), {})

RDisconnect ==
    \E cid \in ClientIds :
        /\ Disconnect(cid)
        /\ last' = Call("disconnect", cid, <<>>, ChannelsOf(clients, info, cid), {})

RSubscribe ==
    \E cid \in ClientIds, names \in NameLists :
        /\ Subscribe(cid, names)
        /\ last' = Call("subscribe", cid, names, ChannelsOf(clients, info, cid),
                        ChannelsOf(clients', info', cid))

RUnsubscribe ==
    \E cid \in ClientIds, names \in NameLists :
        /\ Unsubscribe(cid, names)
        /\ last' = Call("unsubscribe", cid, names, ChannelsOf(clients, info, cid),
                        ChannelsOf(clients', info', cid))

RSendReturn ==
    \E r \in inflight :
        /\ SendReturn(r)
        /\ last' = Call("_send", info[r.w].client_id, <<>>, {}, {})

NextRegistry ==
    \/ RConnect
    \/ RDisconnect
    \/ RSubscribe
    \/ RUnsubscribe
    \/ RSendReturn

SpecRegistry == Init /\ [][NextRegistry]_vars

----------------------------------------------------------------------------
(* websocket_live: the command dispatcher of one connection *)

ErrorData == Dict({"type", "message"}, "error", "", NoId, {}, 0, <<>>)

AckData(event, chans) ==
    Dict({"type", "event", "channels"}, "system", event, NoId, chans, 0, <<>>)

(* a text frame: what json.loads and msg.get make of it *)
FrameKinds ==
    {"invalid_json", "not_object", "no_action", "unknown_action", "ping",
     "subscribe", "unsubscribe", "subscribe_not_list", "subscribe_text"}

ClientFrames ==
    {[kind |-> k, names |-> <<>>] : k \in FrameKinds \ {"subscribe", "unsubscribe"}}
    \cup {[kind |-> k, names |-> n] : k \in {"subscribe", "unsubscribe"}, n \in NameLists}

(* the frames whose handling raises inside the receive loop *)
Raises(f) == f.kind \in {"not_object", "subscribe_not_list"}

ReplyTo(f, chans) ==
    IF f.kind \in {"invalid_json", "no_action", "unknown_action"} THEN ErrorData
    ELSE IF f.kind = "ping" THEN PongData
    ELSE IF f.kind = "unsubscribe" THEN AckData("unsubscribed", chans)
    ELSE AckData("subscribed", chans)

Receive(w, f) ==
    /\ sock[w] \in {"CONNECTED", "BROKEN"}
    /\ info[w] # NoInfo
    /\ \A r \in inflight : r.w # w
    /\ LET cid == info[w].client_id
       IN  IF Raises(f)
           THEN /\ clients' = DisconnectClients(clients, cid)
                /\ channel_subs' = DisconnectSubs(clients, channel_subs, info, cid)
                /\ sock' = [sock EXCEPT ![w] = "DISCONNECTED"]
                /\ UNCHANGED <<info, received, inflight>>
           ELSE /\ IF f.kind = "subscribe" /\ clients[cid] # NoSock
                   THEN /\ info' = [info EXCEPT ![clients[cid]].channels =
                                        SubscribeChannels(@, f.names)]
                        /\ channel_subs' = [ch \in ChannelNames |->
                              IF ch \in Range(f.names) \cap ALL_CHANNELS
                              THEN channel_subs[ch] \cup {cid} ELSE channel_subs[ch]]
                   ELSE IF f.kind = "unsubscribe" /\ clients[cid] # NoSock
                   THEN /\ info' = [info EXCEPT ![clients[cid]].channels =
                                        UnsubscribeChannels(@, f.names)]
                        /\ channel_subs' = [ch \in ChannelNames |->
                              IF ch \in Range(f.names) \ {"system"}
                              THEN channel_subs[ch] \ {cid} ELSE channel_subs[ch]]
                   ELSE UNCHANGED <<info, channel_subs>>
                /\ SendToEffect(cid, ReplyTo(f, ChannelsOf(clients, info', cid)))
                /\ UNCHANGED <<clients, sock>>
    /\ UNCHANGED <<counter, bc>>
    /\ UNCHANGED <<trkVars, auxVars>>

(* receive_text raises WebSocketDisconnect once the peer has gone *)
ReceiveDisconnect(w) ==
    /\ sock[w] = "DISCONNECTED"
    /\ info[w] # NoInfo
    /\ clients[info[w].client_id] = w
    /\ Disconnect(info[w].client_id)

DConnect ==
    \E w \in Sockets :
        Connect(w, NoId) /\ last' = Call("connect", AutoId(counter + 1), <<>>, {}, {})

DReceive ==
    \E w \in Sockets, f \in ClientFrames :
        /\ Receive(w, f)
        /\ last' = Call("receive", info[w].client_id, f.names,
                        ChannelsOf(clients, info, info[w].client_id), {f.kind})

DReceiveDisconnect ==
    \E w \in Sockets :
        /\ ReceiveDisconnect(w)
        /\ last' = Call("closed", info[w].client_id, <<>>, {}, {})

DSendReturn ==
    \E r \in inflight :
        SendReturn(r) /\ last' = Call("_send", info[r.w].client_id, <<>>, {}, {})

DPeerClose ==
    \E w \in Sockets :
        PeerClose(w) /\ last' = Call("peer", info[w].client_id, <<>>, {}, {})

NextDispatch ==
    \/ DConnect
    \/ DReceive
    \/ DReceiveDisconnect
    \/ DSendReturn
    \/ DPeerClose

SpecDispatch == Init /\ [][NextDispatch]_vars

----------------------------------------------------------------------------
(* The route cursor of a SimulatedVessel: _advance_vessel.  A route is the *)
(* sequence of its segment lengths (the haversine distance of waypoint k   *)
(* to waypoint k+1), in tenths of a nautical mile; segment_progress is a   *)
(* fraction counted in 1/Unit.  The lengths and tick distances below keep  *)
(* every quotient of the code exact.                                       *)

Unit == 1000

MIN_SEG_DIST == 1

MaxOf(a, b) == IF a >= b THEN a ELSE b

Routes == {<<1000>>, <<1000, 500>>, <<500, 1000, 500>>}

TickDists == {250, 500, 1500, 2000}

InitProgress == {0, 500}

SegDist(route, k) == route[k + 1]

LastSegment(route) == Len(route) - 1

InitSegments(route) == 0..MaxOf(0, Len(route) - 1)

ClampDist(d) == IF d < MIN_SEG_DIST THEN MIN_SEG_DIST ELSE d

RescaleNone(p, old, new) == p

Rescale(p, old, new) == (p * old) \div new

ExhaustedPast(p) == p > Unit

ExhaustedNever(p) == FALSE

Exhausted(p) == p >= Unit

Cursor(route, seg, p) ==
    [route |-> route, current_segment |-> seg, segment_progress |-> p]

(* "while sv.segment_progress >= 1.0 and sv.current_segment < len(wps) - 2" *)

RECURSIVE NextSegments(_, _, _, _)
NextSegments(route, seg, p, seg_dist) ==
    IF p >= Unit /\ seg < LastSegment(route)
    THEN LET new_seg_dist == SegDist(route, seg + 1)
         IN  IF new_seg_dist > MIN_SEG_DIST
             THEN NextSegments(route, seg + 1,
                               Rescale(p - Unit, seg_dist, new_seg_dist),
                               new_seg_dist)
             ELSE NextSegments(route, seg + 1, p - Unit, seg_dist)
    ELSE Cursor(route, seg, p)

(* "if sv.current_segment >= len(wps) - 2 and sv.segment_progress >= 1.0" *)

LoopBack(c) ==
    IF c.current_segment >= LastSegment(c.route) /\ Exhausted(c.segment_progress)
    THEN Cursor(c.route, 0, 0)
    ELSE c

advance_vessel(c, dist) ==
    IF Len(c.route) + 1 < 2 THEN c
    ELSE LET seg_dist == ClampDist(SegDist(c.route, c.current_segment))
             progress_delta == (dist * Unit) \div seg_dist
         IN  LoopBack(NextSegments(c.route, c.current_segment,
                                   c.segment_progress + progress_delta, seg_dist))

(* the distance from the route's first waypoint to the cursor's place *)

RECURSIVE RouteLen(_, _)
RouteLen(route, k) == IF k = 0 THEN 0 ELSE RouteLen(route, k - 1) + route[k]

Perimeter(route) == RouteLen(route, Len(route))

PathPos(c) ==
    RouteLen(c.route, c.current_segment)
        + (c.segment_progress * SegDist(c.route, c.current_segment)) \div Unit

InitCursor ==
    /\ clients = [c \in ClientIds |-> NoSock]
    /\ channel_subs = [ch \in ChannelNames |-> {}]
    /\ counter = 0
    /\ info = [w \in Sockets |-> NoInfo]
    /\ sock = [w \in Sockets |-> "NEW"]
    /\ received = [w \in Sockets |-> <<>>]
    /\ inflight = {}
    /\ bc = IdleBc
    /\ api_key = ""
    /\ running = FALSE
    /\ vessels = [m \in Mmsis |-> NoVessel]
    /\ now = 0
    /\ sim_vessels = <<>>
    /\ tasks = <<>>
    /\ sched = {}
    /\ epoch = 0
    /\ crowd = NoCrowd
    /\ \E route \in Routes, seg \in 0..2, p \in InitProgress :
          /\ seg \in InitSegments(route)
          /\ sv = Cursor(route, seg, p)
          /\ trip = [NoTrip EXCEPT !.current_segment = seg, !.segment_progress = p,
                                   !.start = PathPos(Cursor(route, seg, p))]
    /\ lock = Free
    /\ calls = [c \in CallIds |-> NoOp]
    /\ rest = IdleRest
    /\ last = NoCall

(* one pass of _sim_loop over this cursor, covering dist *)

Tick(dist) ==
    /\ trip.laps < MaxLaps
    /\ sv' = advance_vessel(sv, dist)
    /\ trip' = [current_segment |-> sv.current_segment,
                segment_progress |-> sv.segment_progress,
                dist |-> dist,
                start |-> trip.start,
                covered |-> trip.covered + dist,
                laps |-> trip.laps + (IF PathPos(sv') <= PathPos(sv) THEN 1 ELSE 0)]
    /\ UNCHANGED <<mgrVars, trkVars, lock, calls, rest, last>>

NextCursor == \E dist \in TickDists : Tick(dist)

SpecCursor == InitCursor /\ [][NextCursor]_vars

----------------------------------------------------------------------------
(* The REST endpoints GET /api/vessels/ and /api/vessels/stats are plain   *)
(* "def" functions, which FastAPI runs in a thread-pool worker, not on the *)
(* event loop.  The worker calls get_vessels() or get_stats(), which take  *)
(* no lock, while the event loop goes on running the tracker's loops: the  *)
(* interpreter may switch threads between any two steps of the iteration,  *)
(* and between the reads of two attributes in to_dict().  One step of the  *)
(* worker is one such read; the event loop's steps stay whole.             *)

RestOps == {"get_vessels", "get_stats"}

ReadPositions == {<<45, 10>>, <<46, 11>>}

ReadMoves ==
    {[m \in Mmsis |-> [pos |-> p, bearing |-> 0]] : p \in SimPoints}

(* the call: the values() iterator is created over the dict as it is now *)

RestCall(op) ==
    /\ rest.pc = "idle"
    /\ rest.served < MaxRequests
    /\ rest' = [IdleRest EXCEPT !.pc = "iter", !.op = op,
                                !.size = Size(vessels, crowd),
                                !.todo = Present(vessels),
                                !.served = rest.served]
    /\ UNCHANGED <<mgrVars, trkVars, sv, trip, lock, calls>>

(* next(iterator): RuntimeError if the dict's size is no longer the one it *)
(* had when the iterator was created                                       *)

RestLeft == rest.todo \cap Present(vessels)

RestNext ==
    /\ rest.pc = "iter"
    /\ IF Size(vessels, crowd) # rest.size
       THEN rest' = [rest EXCEPT !.pc = "error"]
       ELSE IF RestLeft = {}
            THEN rest' = [rest EXCEPT !.pc = "done", !.total = Size(vessels, crowd)]
            ELSE LET m == CHOOSE x \in RestLeft : \A y \in RestLeft : x <= y
                 IN  IF rest.op = "get_vessels"
                        /\ vessels[m].last_update > now - DISPLAY_CUTOFF
                     THEN rest' = [rest EXCEPT !.pc = "lon", !.cur = m,
                                               !.lat = vessels[m].lat,
                                               !.todo = @ \ {m}]
                     ELSE rest' = [rest EXCEPT !.todo = @ \ {m}]
    /\ UNCHANGED <<mgrVars, trkVars, sv, trip, lock, calls>>

(* to_dict: "lon" is read after "lat" *)

RestReadLon ==
    /\ rest.pc = "lon"
    /\ rest' = [rest EXCEPT !.pc = "iter",
                            !.out[rest.cur] = [lat |-> rest.lat,
                                               lon |-> vessels[rest.cur].lon]]
    /\ UNCHANGED <<mgrVars, trkVars, sv, trip, lock, calls>>

RestReturn ==
    /\ rest.pc \in {"done", "error"}
    /\ rest' = [IdleRest EXCEPT !.served = rest.served + 1]
    /\ UNCHANGED <<mgrVars, trkVars, sv, trip, lock, calls>>

(* a request takes far less than a clock step, and the worker holds the    *)
(* object it is reading: the clock and start() move between requests       *)

RestBusy == rest.pc \in {"iter", "lon"}

QStart == ~RestBusy /\ \E moves \in ReadMoves : Start(moves) /\ UNCHANGED last

QClockTick == ~RestBusy /\ ClockTick /\ UNCHANGED last

QAisConnectOk == \E l \in sched : AisConnectOk(l) /\ UNCHANGED last

QPositionReport ==
    \E l \in sched, m \in Mmsis, pos \in ReadPositions :
        PositionReport(l, m, pos, 90, 180, NoSog) /\ UNCHANGED last

QCleanupSweep == \E l \in sched : CleanupSweep(l) /\ UNCHANGED last

QSimTick ==
    \E l \in sched, moves \in ReadMoves : SimTick(l, moves) /\ UNCHANGED last

QRestCall == \E op \in RestOps : RestCall(op) /\ UNCHANGED last

QRestNext == RestNext /\ UNCHANGED last

QRestReadLon == RestReadLon /\ UNCHANGED last

QRestReturn == RestReturn /\ UNCHANGED last

NextReaders ==
    \/ QStart
    \/ QClockTick
    \/ QAisConnectOk
    \/ QPositionReport
    \/ QCleanupSweep
    \/ QSimTick
    \/ QRestCall
    \/ QRestNext
    \/ QRestReadLon
    \/ QRestReturn

SpecReaders == InitVessels /\ [][NextReaders]_vars

----------------------------------------------------------------------------
(* Position and static reports on the same entities, and the simulator's   *)
(* ticks, with the observer                                                *)

Statics == {TankerStatic, ShipStatic(0, "MSC ANNA", "ROTTERDAM", 300, 12)}

Sogs == {NoSog, 12}

KStart ==
    \E moves \in ReadMoves :
        Start(moves) /\ last' = TrackerCall("start", {}, <<>>)

KAisConnectOk ==
    \E l \in sched : AisConnectOk(l) /\ last' = TrackerCall("connect", {}, <<>>)

KPositionReport ==
    \E l \in sched, m \in Mmsis, pos \in ReadPositions, sog \in Sogs :
        /\ PositionReport(l, m, pos, 511, 180, sog)
        /\ last' = TrackerCall("position", {m}, pos)

KStaticReport ==
    \E l \in sched, m \in Mmsis, static \in Statics :
        /\ StaticReport(l, m, static, <<45, 10>>)
        /\ last' = TrackerCall("static", {m}, <<static.name>>)

KSimTick ==
    \E l \in sched, moves \in ReadMoves :
        SimTick(l, moves) /\ last' = TrackerCall("sim", {}, <<>>)

KClockTick == ClockTick /\ last' = TrackerCall("clock", {}, <<>>)

NextStatic ==
    \/ KStart
    \/ KAisConnectOk
    \/ KPositionReport
    \/ KStaticReport
    \/ KSimTick
    \/ KClockTick

SpecStatic == InitVessels /\ [][NextStatic]_vars

----------------------------------------------------------------------------
(* ConnectionManager._lock.  Each call of a manager method is followed     *)
(* through the places where it can wait: the "async with self._lock" of    *)
(* its own critical section, the "await send_json" inside _send, and the   *)
(* "async with self._lock" of the disconnect that _send calls when the     *)
(* send raises.  Taking and leaving the lock are separate steps, so that a *)
(* call can find the lock held by another.                                 *)

LockedOps == {"connect", "disconnect", "subscribe", "unsubscribe", "broadcast"}

ManagerOps == LockedOps \cup {"send_to"}

(* the state of the lock when "async with self._lock" has been left *)

ReleasedAfterSend(c) == c

Released(c) == Free

SetCall(c, pc, left, dropped) ==
    [calls EXCEPT ![c] = [op |-> calls[c].op, pc |-> pc,
                          left |-> left, dropped |-> dropped]]

(* the method is called; send_to takes no lock and goes to _send, or       *)
(* returns False when the id is unknown                                    *)

CallOp(c, op, known) ==
    /\ calls[c].pc = "idle"
    /\ calls' = [calls EXCEPT ![c] =
                    [op |-> op,
                     pc |-> IF op \in LockedOps THEN "lock"
                            ELSE IF known THEN "send" ELSE "returned",
                     left |-> IF op = "send_to" /\ known THEN 1 ELSE 0,
                     dropped |-> 0]]
    /\ UNCHANGED lock

Acquire(c) ==
    /\ calls[c].pc \in {"lock", "dlock"}
    /\ lock = Free
    /\ lock' = c
    /\ calls' = SetCall(c, IF calls[c].pc = "lock" THEN "critical" ELSE "dcritical",
                        calls[c].left, calls[c].dropped)

(* after a send: the next id of broadcast's snapshot, or the return *)

AfterSend(c, left) == IF left > 0 THEN "send" ELSE "returned"

(* the critical section is left; connect goes on to the welcome, broadcast *)
(* to the sends of the ids it copied (subs of them have a session)         *)

Leave(c, subs) ==
    /\ calls[c].pc = "critical"
    /\ lock = c
    /\ lock' = Released(c)
    /\ calls' = SetCall(c,
                    IF calls[c].op = "connect" THEN "send"
                    ELSE IF calls[c].op = "broadcast" THEN AfterSend(c, subs)
                    ELSE "returned",
                    IF calls[c].op = "connect" THEN 1
                    ELSE IF calls[c].op = "broadcast" THEN subs ELSE 0,
                    calls[c].dropped)

(* send_json returns, or _send found the socket not CONNECTED *)

SendDone(c) ==
    /\ calls[c].pc = "send"
    /\ calls' = SetCall(c, AfterSend(c, calls[c].left - 1), calls[c].left - 1,
                        calls[c].dropped)
    /\ UNCHANGED lock

(* send_json raises: _send awaits self.disconnect *)

SendRaise(c) ==
    /\ calls[c].pc = "send"
    /\ calls' = SetCall(c, "dlock", calls[c].left - 1, calls[c].dropped)
    /\ UNCHANGED lock

(* that disconnect leaves the lock and _send returns False *)

DisconnectLeave(c) ==
    /\ calls[c].pc = "dcritical"
    /\ lock = c
    /\ lock' = Free
    /\ calls' = SetCall(c, AfterSend(c, calls[c].left), calls[c].left,
                        calls[c].dropped + 1)

OtherVars ==
    <<clients, channel_subs, counter, info, sock, received, inflight, bc,
      api_key, running, vessels, now, sim_vessels, tasks, sched, epoch, crowd,
      sv, trip, rest, last>>

MCallOp ==
    \E c \in CallIds, op \in ManagerOps, known \in BOOLEAN :
        CallOp(c, op, known) /\ UNCHANGED OtherVars

MAcquire == \E c \in CallIds : Acquire(c) /\ UNCHANGED OtherVars

MLeave ==
    \E c \in CallIds, subs \in 0..MaxSockets : Leave(c, subs) /\ UNCHANGED OtherVars

MSendDone == \E c \in CallIds : SendDone(c) /\ UNCHANGED OtherVars

MSendRaise == \E c \in CallIds : SendRaise(c) /\ UNCHANGED OtherVars

MDisconnectLeave == \E c \in CallIds : DisconnectLeave(c) /\ UNCHANGED OtherVars

NextLock ==
    \/ MCallOp
    \/ MAcquire
    \/ MLeave
    \/ MSendDone
    \/ MSendRaise
    \/ MDisconnectLeave

SpecLock == Init /\ [][NextLock]_vars

(* the event loop resumes every call that can go on; a send that is        *)
(* awaited ends, by returning or by raising                                *)

SpecLockFair ==
    /\ SpecLock
    /\ \A c \in CallIds :
          /\ WF_vars(Acquire(c) /\ UNCHANGED OtherVars)
          /\ WF_vars((\E subs \in 0..MaxSockets : Leave(c, subs)) /\ UNCHANGED OtherVars)
          /\ WF_vars((SendDone(c) \/ SendRaise(c)) /\ UNCHANGED OtherVars)
          /\ WF_vars(DisconnectLeave(c) /\ UNCHANGED OtherVars)

----------------------------------------------------------------------------
(* Properties *)

Registered(w) == info[w].client_id # NoId /\ clients[info[w].client_id] = w

RegisteredIds == {cid \in ClientIds : clients[cid] # NoSock}

Frames(w) == {received[w][i] : i \in 1..Len(received[w])}

PendingOk(w) ==
    (IF [w |-> w, res |-> "ok"] \in inflight THEN 1 ELSE 0)
    + (IF bc.pc = "sending" /\ bc.target = w /\ bc.res = "ok" THEN 1 ELSE 0)

\* C1: an id is in a channel's subscriber set iff it is the id of a registered
\* session whose own channel set contains that channel.
C1_ChannelInvariant ==
    \A cid \in ClientIds, ch \in ChannelNames :
        cid \in channel_subs[ch]
            <=> (clients[cid] # NoSock /\ ch \in info[clients[cid]].channels)

\* C2: when broadcast returns, no session got the payload twice, and every
\* session that was subscribed at the lookup and is still registered with a
\* healthy connected socket got it exactly once, whatever failed meanwhile.
C2_BroadcastIsolation ==
    bc.pc = "done" =>
        /\ \A w \in Sockets : bc.delivered[w] <= 1
        /\ \A w \in bc.snap :
              (Registered(w) /\ sock[w] = "CONNECTED") => bc.delivered[w] = 1

C2_Witness ==
    /\ bc.pc = "done"
    /\ \E f \in bc.failed, w \in bc.snap :
          /\ f # w
          /\ f \in bc.snap
          /\ ~Registered(f)
          /\ bc.delivered[w] = 1

\* C3: when broadcast returns, every session whose delivery attempt did not
\* succeed is out of the client registry and out of every subscriber set.
C3_FailedSessionRemoved ==
    bc.pc = "done" =>
        \A w \in bc.failed :
            /\ ~Registered(w)
            /\ \A ch \in ChannelNames : info[w].client_id \notin channel_subs[ch]

\* C4: unsubscribe removes exactly the requested names other than "system",
\* and every registered session's channel set always contains "system".
C4_SystemNeverRemoved ==
    [][/\ (last'.op = "unsubscribe" /\ clients[last'.cid] # NoSock) =>
              info'[clients[last'.cid]].channels =
                  info[clients[last'.cid]].channels \ (Range(last'.names) \ {"system"})
       /\ \A w \in Sockets :
              (info'[w].client_id # NoId /\ clients'[info'[w].client_id] = w) =>
                  "system" \in info'[w].channels]_vars

C4_Witness ==
    /\ last.op = "unsubscribe"
    /\ last.names = <<"system", "ports">>
    /\ last.pre = {"system", "ports"}
    /\ clients[last.cid] # NoSock
    /\ info[clients[last.cid]].channels = {"system"}

\* C5: subscribe adds exactly the requested names of the channel enumeration,
\* returns the resulting set, and with only unknown names changes nothing.
C5_SubscribeKnownOnly ==
    [][last'.op = "subscribe" =>
          LET cid == last'.cid
              known == Range(last'.names) \cap ALL_CHANNELS
          IN  IF clients[cid] = NoSock
              THEN /\ last'.ret = {}
                   /\ UNCHANGED <<clients, channel_subs, info>>
              ELSE /\ info'[clients[cid]].channels =
                          info[clients[cid]].channels \cup known
                   /\ last'.ret = info'[clients[cid]].channels
                   /\ \A ch \in ChannelNames :
                          channel_subs'[ch] =
                              IF ch \in known THEN channel_subs[ch] \cup {cid}
                              ELSE channel_subs[ch]
                   /\ known = {} => UNCHANGED <<clients, channel_subs, info>>]_vars

C5_Witness ==
    /\ last.op = "subscribe"
    /\ last.names = <<"not-a-real-channel">>
    /\ clients[last.cid] # NoSock
    /\ last.pre = {"system", "ports"}
    /\ last.ret = {"system", "ports"}

\* C6: disconnect of an id that is not registered changes nothing, and a
\* disconnect changes no other id's registration or subscriptions.
C6_DisconnectIdempotent ==
    [][last'.op = "disconnect" =>
          /\ clients'[last'.cid] = NoSock
          /\ info' = info
          /\ clients[last'.cid] = NoSock => UNCHANGED <<clients, channel_subs>>
          /\ \A c \in ClientIds \ {last'.cid} :
                /\ clients'[c] = clients[c]
                /\ \A ch \in ChannelNames :
                      c \in channel_subs'[ch] <=> c \in channel_subs[ch]]_vars

C6_Witness ==
    /\ last.op = "disconnect"
    /\ clients[last.cid] = NoSock
    /\ last.pre = {}
    /\ \E w \in Sockets : info[w].client_id = last.cid
    /\ \E c \in ClientIds \ {last.cid} :
          clients[c] # NoSock /\ "ports" \in info[clients[c]].channels

\* C7: every connect adds exactly one registered session and replaces none.
C7_ConnectAddsOne ==
    [][counter' = counter + 1 =>
          /\ Cardinality({cid \in ClientIds : clients'[cid] # NoSock})
                = Cardinality(RegisteredIds) + 1
          /\ \A cid \in RegisteredIds : clients'[cid] = clients[cid]]_vars

\* C8: the first frame a socket is sent is the welcome carrying the session's
\* id and channels ["system"].
C8_WelcomeFirst ==
    \A w \in Sockets :
        received[w] # <<>> =>
            LET f == received[w][1]
            IN  /\ f.type = "system"
                /\ f.event = "connected"
                /\ f.client_id = info[w].client_id
                /\ f.channels = {"system"}
                /\ {"type", "event", "client_id", "channels", "ts"} \subseteq f.keys

C8_Witness ==
    \E w \in Sockets :
        /\ Len(received[w]) = 2
        /\ received[w][2].event = "heartbeat"
        /\ [w |-> w, res |-> "ok"] \in inflight

\* C9: broadcast returns the number of sessions the payload was delivered to,
\* and a session's messages_sent counts exactly its completed deliveries.
C9_BroadcastCount ==
    /\ bc.pc = "done" =>
          /\ \A w \in Sockets : bc.delivered[w] <= 1
          /\ bc.sent = Cardinality({w \in Sockets : bc.delivered[w] = 1})
          /\ (bc.channel \notin ALL_CHANNELS \/ bc.snap = {}) => bc.sent = 0
    /\ \A w \in Sockets : info[w].messages_sent + PendingOk(w) = Len(received[w])

C9_Witness ==
    /\ bc.pc = "done"
    /\ bc.sent = 1
    /\ bc.failed # {}
    /\ Cardinality(bc.snap) = 2

\* C10 as stated: every vessels snapshot frame has type "vessels", a ts and
\* count equal to the length of its vessels list.
C10_TypeIsChannel ==
    \A w \in Sockets : \A f \in Frames(w) :
        "vessels" \in f.keys =>
            /\ f.type = "vessels"
            /\ "ts" \in f.keys
            /\ f.count = Len(f.vessels)

\* C10 amended: every vessels snapshot frame has type "vessel_positions", a ts
\* and count equal to the length of its vessels list.
C10_SnapshotFrame ==
    \A w \in Sockets : \A f \in Frames(w) :
        "vessels" \in f.keys =>
            /\ f.type = "vessel_positions"
            /\ "ts" \in f.keys
            /\ f.count = Len(f.vessels)

C10_Witness ==
    \E w \in Sockets : \E f \in Frames(w) :
        /\ "vessels" \in f.keys
        /\ f.count = 1
        /\ \A m \in Mmsis : vessels[m] # NoVessel
        /\ "vessels" \in info[w].channels

\* C12: in Live mode a sweep removes exactly the entities whose last_update is
\* more than the stale timeout behind the clock, so none such is left after
\* it, and no step other than a sweep removes an entity from the registry.
C12_SweepEvictsStale ==
    [][api_key # "" =>
          /\ last'.op = "cleanup" =>
                /\ \A m \in Mmsis :
                      vessels'[m] =
                          IF /\ vessels[m] # NoVessel
                             /\ now - vessels[m].last_update > STALE_TIMEOUT
                          THEN NoVessel ELSE vessels[m]
                /\ crowd' = IF crowd.n > 0 /\ now - crowd.at > STALE_TIMEOUT
                            THEN NoCrowd ELSE crowd
                /\ \A m \in Present(vessels') :
                      now' - vessels'[m].last_update <= STALE_TIMEOUT
          /\ last'.op # "cleanup" =>
                /\ Present(vessels) \subseteq Present(vessels')
                /\ crowd.n <= crowd'.n]_vars

C12_Witness ==
    /\ api_key # ""
    /\ last.op = "cleanup"
    /\ \E m \in last.pre : vessels[m] = NoVessel
    /\ \E k \in Present(vessels) : now - vessels[k].last_update = STALE_TIMEOUT

\* C13: a position or static report touches only the entity stored under the
\* report's identity; when that identity is already present the same object
\* stays under the key, the fields the report does not carry are kept, and the
\* registry size does not change.
C13_OneEntityPerIdentity ==
    [][\A m \in Mmsis :
          (last'.op \in {"position", "static"} /\ last'.ret = {m}) =>
              /\ \A k \in Mmsis \ {m} : vessels'[k] = vessels[k]
              /\ crowd' = crowd
              /\ vessels[m] # NoVessel =>
                    /\ vessels'[m] # NoVessel
                    /\ Size(vessels', crowd') = Size(vessels, crowd)
                    /\ vessels'[m].gen = vessels[m].gen
                    /\ last'.op = "position" =>
                          vessels'[m].vessel_type = vessels[m].vessel_type
                    /\ last'.op = "static" =>
                          /\ vessels'[m].lat = vessels[m].lat
                          /\ vessels'[m].lon = vessels[m].lon
                          /\ vessels'[m].heading = vessels[m].heading
                          /\ vessels'[m].last_update = vessels[m].last_update]_vars

C13_Witness ==
    /\ last.op = "position"
    /\ \E m \in last.pre :
          /\ last.ret = {m}
          /\ vessels[m].vessel_type = "tanker"
          /\ vessels[m].last_update = now
          /\ now > 0
          /\ vessels[m].heading = 90

\* C14: the registry never holds more than MAX_VESSELS entries; at the cap a
\* report for an unknown identity changes nothing, a valid position report for
\* a known identity is applied, and below the cap a valid position report for
\* an unknown identity is admitted.
C14_RegistryCapped ==
    /\ [](Size(vessels, crowd) <= MAX_VESSELS)
    /\ [][\A m \in Mmsis :
             (last'.op \in {"position", "static"} /\ last'.ret = {m}) =>
                 LET valid == InRange(last'.names) /\ ~NullIsland(last'.names)
                     full == Size(vessels, crowd) = MAX_VESSELS
                 IN  /\ (full /\ vessels[m] = NoVessel) =>
                            (vessels' = vessels /\ crowd' = crowd)
                     /\ (full /\ vessels[m] # NoVessel /\ last'.op = "position" /\ valid) =>
                            /\ vessels'[m].lat = last'.names[1]
                            /\ vessels'[m].lon = last'.names[2]
                            /\ vessels'[m].last_update = now
                     /\ (~full /\ vessels[m] = NoVessel /\ last'.op = "position" /\ valid) =>
                            vessels'[m] # NoVessel]_vars

C14_Witness ==
    /\ last.op = "position"
    /\ InRange(last.names) /\ ~NullIsland(last.names)
    /\ \E m \in Mmsis \ last.pre : last.ret = {m} /\ vessels[m] = NoVessel
    /\ Size(vessels, crowd) = MAX_VESSELS

\* C15: every entity in the registry has 0 <= heading < 360.
C15_HeadingNormalized ==
    \A m \in Present(vessels) : 0 <= vessels[m].heading /\ vessels[m].heading < 360

\* C16: every entity in the registry has latitude in [-90, 90] and longitude
\* in [-180, 180].
C16_PositionInBounds ==
    \A m \in Present(vessels) :
        /\ -90 <= vessels[m].lat /\ vessels[m].lat <= 90
        /\ -180 <= vessels[m].lon /\ vessels[m].lon <= 180

LoopKindNames == {"ais", "cleanup", "sim", "broadcast"}

KindsOf(S) == {l.kind : l \in S}

\* C17: the credential never changes; while running the task list holds the
\* ingestion, sweep and broadcast loops when the credential is non-empty and
\* the simulation and broadcast loops when it is empty, one of each; the two
\* families never coexist, and only the mode's own loops take steps.
C17_ModeSelectsLoops ==
    [][/\ api_key' = api_key
       /\ running' =>
             /\ KindsOf(Range(tasks')) =
                    (IF api_key # "" THEN {"ais", "cleanup", "broadcast"}
                     ELSE {"sim", "broadcast"})
             /\ Len(tasks') = Cardinality(KindsOf(Range(tasks')))
       /\ ~("sim" \in KindsOf(sched') /\ KindsOf(sched') \cap {"ais", "cleanup"} # {})
       /\ last'.op \in {"ais", "cleanup"} => api_key # ""
       /\ last'.op = "sim" => api_key = ""]_vars

C17_Witness ==
    /\ running
    /\ epoch = 2
    /\ api_key # ""
    /\ last.op = "cleanup"
    /\ last.ret = {2}

\* C18: stop() leaves the task list empty, the tracker not running and every
\* loop cancelled; a loop body step is only ever taken by a task of the task
\* list that has not been cancelled, while the tracker is running; and every
\* cancelled loop eventually terminates.
C18_StopTerminatesLoops ==
    /\ [][/\ last'.op = "stop" =>
                /\ tasks' = <<>>
                /\ ~running'
                /\ \A l \in sched' : l.cancelled
          /\ last'.op \in LoopKindNames =>
                \E l \in sched :
                    /\ l.kind = last'.op
                    /\ last'.ret = {l.epoch}
                    /\ ~l.cancelled
                    /\ running
                    /\ TaskOf(l) \in Range(tasks)]_vars
    /\ \A k \in LoopKindNames, e \in 1..MaxStarts :
          (\E l \in sched : TaskOf(l) = Task(k, e) /\ l.cancelled)
              ~> (\A l \in sched : TaskOf(l) # Task(k, e))

C18_Witness ==
    /\ ~running
    /\ tasks = <<>>
    /\ sched = {}
    /\ epoch = 2
    /\ last.op = "exit"

\* C19: in Simulated mode, while running, there is exactly one cursor per
\* registry entity, every cursor's VesselPosition is the object stored in the
\* registry under its identity, and the fleet has the configured size.
C19_FleetConsistent ==
    (api_key = "" /\ running) =>
        /\ Len(sim_vessels) = Cardinality(Present(vessels))
        /\ Len(sim_vessels) = Len(FleetMmsis)
        /\ \A i \in 1..Len(sim_vessels) :
              /\ vessels[sim_vessels[i].mmsi] # NoVessel
              /\ vessels[sim_vessels[i].mmsi].gen = sim_vessels[i].gen
        /\ \A i, j \in 1..Len(sim_vessels) :
              i # j => sim_vessels[i].mmsi # sim_vessels[j].mmsi

\* C20: in Live mode the ingestion loop reaches a connection attempt only at
\* its start or after the fixed-delay sleep that follows a failure; it leaves
\* the event loop only once cancelled or stopped; and a failure of the
\* upstream connection sends nothing to clients and leaves the other loops
\* as they were.
C20_ReconnectAfterDelay ==
    /\ [](\A l \in sched :
             (l.kind = "ais" /\ l.pc = "connect") => l.via \in {"start", "sleep"})
    /\ [][/\ (last'.op = "exit" /\ last'.names = <<"ais">>) =>
                \E l \in sched : l.kind = "ais" /\ l \notin sched'
                                  /\ (l.cancelled \/ ~running)
          /\ (last'.op = "ais" /\ last'.names \in {<<"connect error">>, <<"drop">>, <<"closed">>}) =>
                /\ received' = received
                /\ {l \in sched' : l.kind # "ais"} = {l \in sched : l.kind # "ais"}
                /\ tasks' = tasks]_vars

MalformedKinds ==
    {"invalid_json", "not_object", "no_action", "unknown_action",
     "subscribe_not_list", "subscribe_text"}

\* C11: a malformed command from a registered session on a connected socket
\* is answered with a {type: error} frame, and the session stays connected
\* and registered with its subscriptions unchanged.
C11_MalformedGetsError ==
    [][\A w \in Sockets :
          (/\ last'.op = "receive"
           /\ last'.cid = info[w].client_id
           /\ last'.ret \subseteq MalformedKinds
           /\ Registered(w)
           /\ sock[w] = "CONNECTED") =>
              /\ received'[w] = Append(received[w], SetDefaultTs(ErrorData))
              /\ clients' = clients
              /\ sock'[w] = "CONNECTED"
              /\ info'[w].channels = info[w].channels
              /\ channel_subs' = channel_subs]_vars


\* C21: a "vessels" snapshot lists exactly the registry's entities younger
\* than 300 s, each once, and its count is their number; older entities
\* stay in the registry and are left out.  A simulated fleet keeps its size,
\* and is listed whole when its tick is up to date.
C21_SnapshotIsFresh ==
    /\ [](api_key = "" /\ epoch > 0 => Present(vessels) = Range(FleetMmsis))
    /\ [][(bc.pc = "idle" /\ bc'.pc # "idle" /\ bc'.owner = "tracker") =>
            LET young == {m \in Present(vessels) :
                             now - vessels[m].last_update < 300}
            IN  /\ Range(bc'.data.vessels) = young
                /\ Len(bc'.data.vessels) = Cardinality(young)
                /\ bc'.data.count = Cardinality(young)
                /\ vessels' = vessels
                /\ (api_key = "" /\ \A m \in Mmsis : vessels[m].last_update = now)
                       => Range(bc'.data.vessels) = Range(FleetMmsis)]_vars

C21_Witness ==
    /\ bc.owner = "tracker" /\ bc.pc = "sending" /\ bc.res = "ok"
    /\ Len(bc.data.vessels) = 1
    /\ vessels[bc.data.vessels[1]].last_update = now
    /\ \E m \in Present(vessels) :
           /\ now - vessels[m].last_update >= 300
           /\ m \notin Range(bc.data.vessels)

\* C22 (as stated): on a 2-waypoint route of length 1000, the cursor at
\* segment 0, progress 0.5, advanced by a tick covering 500, is left at
\* progress 1.0 on segment 0, and the next call wraps it to segment 0,
\* progress 0.0.
C22_LandsThenWraps ==
    [][trip'.covered # trip.covered /\ sv.route = <<1000>> =>
          /\ (sv.current_segment = 0 /\ sv.segment_progress = 500
                 /\ trip'.dist = 500)
                => sv' = Cursor(<<1000>>, 0, Unit)
          /\ sv = Cursor(<<1000>>, 0, Unit) => sv' = Cursor(<<1000>>, 0, 0)]_vars

\* C22 (amended): that same call wraps the cursor to segment 0, progress
\* 0.0; no call leaves progress 1.0 stored.
C22_WrapsAtOnce ==
    /\ [](sv.segment_progress < Unit)
    /\ [][(trip'.covered # trip.covered /\ sv = Cursor(<<1000>>, 0, 500)
             /\ trip'.dist = 500)
            => sv' = Cursor(<<1000>>, 0, 0)]_vars

C22_Witness ==
    /\ sv = Cursor(<<1000>>, 0, 0)
    /\ trip.current_segment = 0 /\ trip.segment_progress = 500
    /\ trip.dist = 500

\* C23: a cursor that starts at segment 0, progress 0 and is advanced by
\* exactly the route's cumulative length is back at segment 0, progress 0;
\* an advance that stays on the route moves the cursor by the distance the
\* tick covered, whatever segment boundaries it crosses.
C23_LoopClosure ==
    /\ []((sv # NoCursor /\ trip.start = 0 /\ trip.covered = Perimeter(sv.route))
             => (sv.current_segment = 0 /\ sv.segment_progress = 0))
    /\ [][(trip'.covered # trip.covered
             /\ PathPos(sv) + trip'.dist < Perimeter(sv.route))
            => PathPos(sv') = PathPos(sv) + trip'.dist]_vars

C23_Witness ==
    /\ sv = Cursor(<<500, 1000, 500>>, 0, 0)
    /\ trip.start = 0 /\ trip.covered = 2000
    /\ trip.dist = 500 /\ trip.current_segment = 2

\* C24: after fleet initialisation and after every tick the cursor's segment
\* is between 0 and waypoint count - 2 and its progress between 0 and 1; a
\* tick never lowers the segment except by wrapping to segment 0, progress 0
\* when the last segment is exhausted; the cursor keeps its route.
C24_CursorInRange ==
    /\ [](sv # NoCursor =>
             /\ 0 <= sv.current_segment
             /\ sv.current_segment <= (Len(sv.route) + 1) - 2
             /\ 0 <= sv.segment_progress /\ sv.segment_progress <= Unit)
    /\ [][trip'.covered # trip.covered =>
             /\ sv'.route = sv.route
             /\ \/ sv'.current_segment >= sv.current_segment
                \/ /\ sv' = Cursor(sv.route, 0, 0)
                   /\ PathPos(sv) + trip'.dist >= Perimeter(sv.route)]_vars

C24_Witness ==
    /\ Len(sv.route) = 3 /\ sv.current_segment = 2
    /\ trip.laps = 1 /\ trip.current_segment < 2


\* C25: no reader iterates the registry across an insertion or a deletion,
\* and none observes a partially applied mutation: a REST request never
\* fails on the registry changing under its iteration, and every position
\* it returns is one the entity was given in a single update.
C25_ReadersSeeWholeUpdates ==
    /\ rest.pc # "error"
    /\ \A m \in Mmsis :
          rest.out[m] # NoRead =>
              <<rest.out[m].lat, rest.out[m].lon>> \in ReadPositions \cup SimPoints

\* C26: a static report for a known identity leaves its position, speed,
\* heading, flag and last_update as they were; a position report for a
\* known identity leaves its name, category, destination, dimensions and
\* flag as they were; no report and no tick changes an entity's flag.
C26_ReportsKeepOtherFields ==
    [][\A m \in Mmsis :
          vessels[m] # NoVessel =>
              /\ (last'.op = "static" /\ m \in last'.ret) =>
                    /\ vessels'[m].lat = vessels[m].lat
                    /\ vessels'[m].lon = vessels[m].lon
                    /\ vessels'[m].speed_knots = vessels[m].speed_knots
                    /\ vessels'[m].heading = vessels[m].heading
                    /\ vessels'[m].flag_iso = vessels[m].flag_iso
                    /\ vessels'[m].last_update = vessels[m].last_update
              /\ (last'.op = "position" /\ m \in last'.ret) =>
                    /\ vessels'[m].name = vessels[m].name
                    /\ vessels'[m].vessel_type = vessels[m].vessel_type
                    /\ vessels'[m].destination = vessels[m].destination
                    /\ vessels'[m].length_m = vessels[m].length_m
                    /\ vessels'[m].draught_m = vessels[m].draught_m
                    /\ vessels'[m].flag_iso = vessels[m].flag_iso
              /\ last'.op \in {"static", "position", "sim"} =>
                    vessels'[m].flag_iso = vessels[m].flag_iso]_vars

C26_Witness ==
    /\ last.op = "position" /\ last.ret = {1} /\ 1 \in last.pre
    /\ vessels[1].name = "MSC ANNA" /\ vessels[1].vessel_type = "container"
    /\ vessels[1].destination = "ROTTERDAM" /\ vessels[1].length_m = 300
    /\ vessels[1].flag_iso = "GRC" /\ vessels[1].speed_knots = 12
    /\ vessels[1].last_update = now /\ now > 0
    /\ <<vessels[1].lat, vessels[1].lon>> = <<46, 11>>

\* C27: once unsubscribe(s, [c]) has returned, no message of a broadcast on
\* c is delivered to s unless s subscribes again: while every session has
\* an id of its own, a broadcast hands a frame only to a session that is
\* subscribed to the channel at that moment.
C27_UnsubscribedGetsNothing ==
    [][\A w \in Sockets :
          (/\ \A w1, w2 \in Sockets :
                 (w1 # w2 /\ info[w1] # NoInfo /\ info[w2] # NoInfo)
                    => info[w1].client_id # info[w2].client_id
           /\ bc' # bc /\ bc'.pc = "sending" /\ bc'.target = w /\ bc'.res = "ok"
           /\ Len(received'[w]) = Len(received[w]) + 1)
          => bc'.channel \in info[w].channels]_vars

\* C28: the manager's lock is never held while a socket send is awaited,
\* so the disconnect that a failed send triggers always gets the lock; no
\* interleaving of calls deadlocks, and every call eventually returns.
C28_LockFreeAtSend ==
    /\ [](\A c \in CallIds : calls[c].pc \in {"send", "dlock"} => lock # c)
    /\ [](lock # Free => calls[lock].pc \in {"critical", "dcritical"})
    /\ \A c \in CallIds :
          /\ (calls[c].pc = "dlock") ~> (calls[c].pc = "dcritical")
          /\ (calls[c].pc # "idle") ~> (calls[c].pc = "returned")

C28_Witness ==
    \E c, d \in CallIds :
        /\ calls[c].op = "broadcast" /\ calls[c].pc = "dcritical" /\ lock = c
        /\ calls[c].left > 0
        /\ calls[d].op = "connect" /\ calls[d].pc = "dlock"

\* C29: start() on a running tracker changes nothing; at any time at most
\* one live instance of each background loop exists; the fleet is only
\* initialised by the start() that begins a run; so a vessels snapshot is
\* only ever sent by the single live broadcast loop.
C29_StartOnceOnly ==
    /\ [](\A k \in LoopKindNames :
             Cardinality({l \in sched : l.kind = k /\ ~l.cancelled}) <= 1)
    /\ [][/\ (last'.op = "start" /\ running) =>
                /\ running' /\ epoch' = epoch
                /\ tasks' = tasks /\ sched' = sched
                /\ vessels' = vessels /\ sim_vessels' = sim_vessels
          /\ sim_vessels' # sim_vessels =>
                (last'.op = "start" /\ ~running /\ running')
          /\ last'.op = "broadcast" =>
                Cardinality({l \in sched : l.kind = "broadcast" /\ ~l.cancelled}) = 1]_vars

C29_Witness ==
    /\ last.op = "start" /\ last.names = <<"running">>
    /\ running /\ epoch = 1
    /\ api_key = "" /\ Len(sim_vessels) = Len(FleetMmsis)
    /\ Cardinality(sched) = 2

\* C30: in Live mode every connection attempt after the first follows the
\* fixed reconnect delay, whether the previous connection ended with an
\* error or was closed by the upstream without one.
C30_NoTightReconnect ==
    \A l \in sched :
        (l.kind = "ais" /\ l.pc = "connect") => l.via \in {"start", "sleep"}

====
